---- MODULE Spec2Model ----
(***************************************************************************)
(* Model of tap-aptem: the replication engine of client.py (request        *)
(* shaping, pagination, response classification) and the metadata          *)
(* discovery of metadata.py.                                               *)
(*                                                                         *)
(* Optional values (a Python None / an absent dict key) are sequences of   *)
(* length 0 or 1.  Timestamps are integers counting 100ns units, the       *)
(* resolution of the 7-digit fractions the API returns (client.py:39-43);  *)
(* a Python datetime holds whole microseconds only.                        *)
(***************************************************************************)
EXTENDS Integers, Sequences, FiniteSets, TLC

None == <<>>
Some(v) == <<v>>

Max(a, b) == IF a >= b THEN a ELSE b
Min(a, b) == IF a <= b THEN a ELSE b

(***************************************************************************)
(* Bounds of the model.                                                    *)
(***************************************************************************)
MaxMicro == 1      \* timestamps range over microseconds 0..MaxMicro
MaxGroups == 2     \* distinct replication-key values held by the server
MaxFaults == 2     \* responses other than 200 in one run of the tap
MaxTries == 2      \* attempts the transport's retry policy makes
MaxEntitySets == 2 \* EntitySet elements of a metadata document
MaxDepth == 6      \* nested calls the interpreter's recursion limit allows
MaxEntities == 3   \* entities that discovery yields to discover_streams
MaxParents == 2    \* records the parent stream yields
MaxElements == 2   \* elements of a parent record's nested collection

(***************************************************************************)
(* client.py                                                               *)
(***************************************************************************)
ENTITY_RECORD_LIMITS ==
    [LearningPlanEvidences |-> 5000, ReviewResponses |-> 5000, Users |-> 1000]

DefaultRecordLimit == 100000

page_size(name) ==
    IF name \in DOMAIN ENTITY_RECORD_LIMITS
    THEN ENTITY_RECORD_LIMITS[name]
    ELSE DefaultRecordLimit

\* 100ns units per microsecond
Grain == 10

\* datetime.fromisoformat: digits beyond the microsecond are dropped
fromisoformat(v) == (v \div Grain) * Grain

\* the fractions a timestamp of the API can carry below the microsecond
SubMicro == {0, 7}

Timestamps == {m * Grain + d : m \in 0..MaxMicro, d \in SubMicro}

\* Stream.get_starting_timestamp: the starting replication value, parsed
get_starting_timestamp(start) ==
    IF start = None THEN None ELSE Some(fromisoformat(start[1]))

\* "a,b,c"
RECURSIVE Join(_)
Join(names) ==
    IF Len(names) = 0 THEN ""
    ELSE IF Len(names) = 1 THEN names[1]
    ELSE names[1] \o "," \o Join(Tail(names))

\* faulty variant: every child stream is expanded, selected or not
selected_child_streams_all(child_streams) ==
    [i \in 1..Len(child_streams) |-> child_streams[i].name]

\* names of the selected child streams, in child_streams order
selected_child_streams(child_streams) ==
    LET sel == SelectSeq(child_streams, LAMBDA cs : cs.selected)
    IN  [i \in 1..Len(sel) |-> sel[i].name]

\* faulty variant: the selection mask is ignored
selected_columns_unmasked(properties, mask) == properties

\* schema properties the selection mask keeps, in schema order
selected_columns(properties, mask) ==
    SelectSeq(properties, LAMBDA c : mask[c])

\* next_page_token is [kind |-> "none" | "int" | "datetime", v |-> value]
NoToken == [kind |-> "none", v |-> 0]

\* faulty variant: the starting-timestamp filter is kept on later pages
get_url_params_keeps_ge(st, next_page_token) ==
    LET starting_timestamp == get_starting_timestamp(st.start)
        children == selected_child_streams(st.child_streams)
        columns == selected_columns(st.properties, st.mask)
    IN  [ top     |-> page_size(st.name),
          orderby |-> st.replication_key,
          filter  |->
              IF starting_timestamp /= None
              THEN Some([key |-> st.replication_key[1], op |-> "ge",
                         ts |-> starting_timestamp[1]])
              ELSE IF next_page_token.kind = "datetime"
              THEN Some([key |-> st.replication_key[1], op |-> "gt",
                         ts |-> next_page_token.v])
              ELSE None,
          skip    |->
              IF next_page_token.kind = "int"
              THEN Some(next_page_token.v) ELSE None,
          expand  |->
              IF Len(children) > 0 THEN Some(Join(children)) ELSE None,
          select  |->
              IF Len(columns) > 0 THEN Some(Join(columns)) ELSE None ]

get_url_params(st, next_page_token) ==
    LET starting_timestamp == get_starting_timestamp(st.start)
        children == selected_child_streams(st.child_streams)
        columns == selected_columns(st.properties, st.mask)
    IN  [ top     |-> page_size(st.name),
          orderby |-> st.replication_key,
          filter  |->
              IF next_page_token.kind = "datetime"
              THEN Some([key |-> st.replication_key[1], op |-> "gt",
                         ts |-> next_page_token.v])
              ELSE IF starting_timestamp /= None
              THEN Some([key |-> st.replication_key[1], op |-> "ge",
                         ts |-> starting_timestamp[1]])
              ELSE None,
          skip    |->
              IF next_page_token.kind = "int"
              THEN Some(next_page_token.v) ELSE None,
          expand  |->
              IF Len(children) > 0 THEN Some(Join(children)) ELSE None,
          select  |->
              IF Len(columns) > 0 THEN Some(Join(columns)) ELSE None ]

\* faulty variant: the offset paginator starts after the first page
get_new_paginator_second_page(st) ==
    IF st.replication_key = None
    THEN [kind |-> "int", v |-> page_size(st.name)]
    ELSE NoToken

\* get_new_paginator: the paginator's start value
get_new_paginator(st) ==
    IF st.replication_key = None
    THEN [kind |-> "int", v |-> 0]
    ELSE NoToken

\* faulty variant: the offset paginator counts pages instead of records
get_next_page_number(st, value, replication_key_value) ==
    IF st.replication_key = None
    THEN Some([kind |-> "int", v |-> value.v + 1])
    ELSE IF replication_key_value /= None
    THEN Some([kind |-> "datetime",
               v |-> fromisoformat(replication_key_value[1])])
    ELSE None

\* BaseOffsetPaginator.get_next / CallbackPaginator.get_next with the
\* get_replication_key_value callback; None when the state holds no value
get_next(st, value, replication_key_value) ==
    IF st.replication_key = None
    THEN Some([kind |-> "int", v |-> value.v + page_size(st.name)])
    ELSE IF replication_key_value /= None
    THEN Some([kind |-> "datetime",
               v |-> fromisoformat(replication_key_value[1])])
    ELSE None

\* faulty variant: 403 is not singled out and takes the generic validation
validate_response_forbidden_fatal(response) ==
    IF response.status = 429 \/ response.status >= 500
    THEN "RetriableAPIError"
    ELSE IF response.status >= 400 /\ response.status < 500
    THEN "FatalAPIError"
    ELSE ""

\* faulty variant: 414 is raised as the resumable error, like 403
validate_response_uri_too_long_resumable(response) ==
    IF response.status = 403 \/ response.status = 414
    THEN "_ResumableAPIError"
    ELSE IF response.status = 429 \/ response.status >= 500
    THEN "RetriableAPIError"
    ELSE IF response.status >= 400 /\ response.status < 500
    THEN "FatalAPIError"
    ELSE ""

\* validate_response: the exception raised for a response, "" for none.
\* A response is [status, transient, page]; transient tells whether the body's
\* error.message is a transient-server phrase, which the code never reads.
validate_response(response) ==
    IF response.status = 403 THEN "_ResumableAPIError"
    ELSE IF response.status = 429 \/ response.status >= 500
    THEN "RetriableAPIError"
    ELSE IF response.status >= 400 /\ response.status < 500
    THEN "FatalAPIError"
    ELSE ""

\* what validate_response logs before it raises
validate_response_log(response) ==
    IF response.status = 414
    THEN <<"error: Too many properties requested - reduce selection and try again">>
    ELSE <<>>

\* faulty variant: get_records catches every error of the request
get_records_catches_any(exc) == exc /= ""

\* get_records: _ResumableAPIError is caught and logged as a warning, any
\* other exception escapes
get_records_catches(exc) == exc = "_ResumableAPIError"

(***************************************************************************)
(* The server: records grouped by replication-key value, ascending; a      *)
(* group is [val, cnt], cnt records sharing the value val.  It honours     *)
(* $filter, $orderby, $skip and $top.  A page is, per group, the range     *)
(* [lo, hi) of the group's records it returns.                             *)
(***************************************************************************)
Passes(filter, val) ==
    IF filter = None THEN TRUE
    ELSE IF filter[1].op = "ge" THEN val >= filter[1].ts
    ELSE val > filter[1].ts

RECURSIVE Before(_, _, _)
Before(db, filter, i) ==
    IF i <= 1 THEN 0
    ELSE Before(db, filter, i - 1)
         + (IF Passes(filter, db[i - 1].val) THEN db[i - 1].cnt ELSE 0)

ServerPage(db, params) ==
    [i \in 1..Len(db) |->
        LET b == Before(db, params.filter, i)
            skip == IF params.skip = None THEN 0 ELSE params.skip[1]
            lo == Min(db[i].cnt, Max(skip - b, 0))
            hi == Min(db[i].cnt, Max(skip + params.top - b, 0))
        IN  IF Passes(params.filter, db[i].val) /\ hi > lo
            THEN [lo |-> lo, hi |-> hi]
            ELSE [lo |-> 0, hi |-> 0]]

RECURSIVE PageCount(_, _)
PageCount(page, i) ==
    IF i = 0 THEN 0 ELSE PageCount(page, i - 1) + page[i].hi - page[i].lo

NumRecords(page) == PageCount(page, Len(page))

\* group of the last record of a non-empty page
LastGroup(page) ==
    CHOOSE i \in 1..Len(page) :
        /\ page[i].hi > page[i].lo
        /\ \A j \in (i + 1)..Len(page) : page[j].hi = page[j].lo

(***************************************************************************)
(* One run of the tap: the streams are synced one after the other; an      *)
(* exception escaping a stream's get_records aborts the run.               *)
(***************************************************************************)
VARIABLES
    streams,      \* per stream: its configuration and the server's records
    cur,          \* the stream being synced
    tap,          \* "running", "success" or "aborted"
    pc,           \* per stream: position in the request loop
    paginator,    \* per stream: the paginator's current value
    tries,        \* per stream: attempts made for the current request
    state,        \* per stream: the state's replication_key_value
    response,     \* per stream: the last response received
    requests,     \* per stream: the requests sent, [params, response] each
    yielded,      \* per stream, per group: records yielded so far
    emitted,      \* per stream: number of records yielded, repeats included
    log,          \* per stream: messages logged
    raised,       \* per stream: the exception that escaped get_records
    doc,          \* the metadata document given to discover_entities
    dpc,          \* position of the discover_entities generator
    idx,          \* position in the items of entity_sets_by_type
    discovered,   \* the DiscoveredEntity values yielded so far
    derror,       \* the exception discovery raised
    indexes,      \* discover_entities: the three dicts built from the document
    frames,       \* the nested _type_to_jsonschema calls under way
    built,        \* discover_streams: streams_by_entity_name so far
    bidx,         \* discover_streams: position in the discovered entities
    bpc,          \* discover_streams: "idle", "building", "done" or "failed"
    embedded,     \* the parent stream, its records and the embedded stream
    context,      \* the child context of the parent record being synced
    base_record,  \* EmbeddedCollectionStream.get_records: its base_record
    eidx,         \* <<parent record, element>> being unpacked
    child_records,\* the records the embedded stream has yielded
    epc           \* position of the parent's sync of its child stream

pvars == <<streams, cur, tap, pc, paginator, tries, state, response, requests,
           yielded, emitted, log, raised>>

dvars == <<doc, dpc, idx, discovered, derror, indexes>>

xvars == <<frames, built, bidx, bpc>>

evars == <<embedded, context, base_record, eidx, child_records, epc>>

vars == <<pvars, dvars, xvars, evars>>

Streams == {1, 2}
LastStream == CHOOSE s \in Streams : \A t \in Streams : t <= s

\* record sets of the server for a stream of page size P: a group is one
\* record or a page full of records
GroupSizes(P) == {1, P}

Groups(P) == [val : Timestamps, cnt : GroupSizes(P)]

Databases(P) ==
    {db \in UNION {[1..n -> Groups(P)] : n \in 0..MaxGroups} :
        \A i \in 1..(Len(db) - 1) : db[i].val < db[i + 1].val}

Statuses == {200, 400, 403, 414, 500}

Responses(db, params) ==
    {[status |-> 200, transient |-> FALSE, page |-> ServerPage(db, params)]}
    \cup [status : {400}, transient : BOOLEAN, page : {<<>>}]
    \cup [status : Statuses \ {200, 400}, transient : {FALSE}, page : {<<>>}]

NoResponse == [status |-> 0, transient |-> FALSE, page |-> <<>>]

AllSelected(properties) == [c \in {properties[i] : i \in 1..Len(properties)} |-> TRUE]

\* stream names: one of the override table, one with the default page size
EntityNames == {"Users", "Learners"}

\* the entity under study: with or without a replication key
KeyedEntities(n) ==
    {[name |-> n, replication_key |-> Some("UpdatedDate"), start |-> s,
      child_streams |-> <<>>, properties |-> <<"Id", "UpdatedDate">>,
      mask |-> AllSelected(<<"Id", "UpdatedDate">>), db |-> d] :
        s \in {None} \cup {Some(t) : t \in Timestamps},
        d \in Databases(page_size(n))}

UnkeyedEntities(n) ==
    {[name |-> n, replication_key |-> None, start |-> None,
      child_streams |-> <<>>, properties |-> <<"Id", "Name">>,
      mask |-> AllSelected(<<"Id", "Name">>), db |-> d] :
        d \in Databases(page_size(n))}

Entities == UNION {KeyedEntities(n) \cup UnkeyedEntities(n) : n \in EntityNames}

\* a sibling entity synced after it
Sibling ==
    [name |-> "ReviewResponses", replication_key |-> None, start |-> None,
     child_streams |-> <<>>, properties |-> <<"Id">>,
     mask |-> AllSelected(<<"Id">>), db |-> <<[val |-> 0, cnt |-> 1]>>]

\* no discovery under way
NoDocument == [schemas |-> <<>>, containers |-> <<>>]

NoIndexes == [complex_types |-> <<>>, entity_sets_by_type |-> <<>>,
              entities_by_type |-> <<>>]

DiscoveryIdle ==
    /\ doc = NoDocument
    /\ indexes = NoIndexes
    /\ dpc = "idle"
    /\ idx = 0
    /\ discovered = <<>>
    /\ derror = ""

\* no schema expansion and no stream construction under way
BuildIdle ==
    /\ frames = <<>>
    /\ built = <<>>
    /\ bidx = 0
    /\ bpc = "idle"

NoEmbedded == [entity_name |-> "", primary_keys |-> <<>>, records |-> <<>>,
               parent_entity_name |-> "", collection_name |-> ""]

\* no embedded stream being synced
EmbeddedIdle ==
    /\ embedded = NoEmbedded
    /\ context = <<>>
    /\ base_record = <<>>
    /\ eidx = <<0, 0>>
    /\ child_records = <<>>
    /\ epc = "idle"

Init ==
    /\ \E e \in Entities : streams = <<e, Sibling>>
    /\ DiscoveryIdle
    /\ BuildIdle
    /\ EmbeddedIdle
    /\ cur = 1
    /\ tap = "running"
    /\ pc = <<"request", "idle">>
    /\ paginator = [s \in Streams |-> get_new_paginator(streams[s])]
    /\ tries = [s \in Streams |-> 0]
    /\ state = [s \in Streams |-> streams[s].start]
    /\ response = [s \in Streams |-> NoResponse]
    /\ requests = [s \in Streams |-> <<>>]
    /\ yielded = [s \in Streams |-> [i \in 1..Len(streams[s].db) |-> 0]]
    /\ emitted = [s \in Streams |-> 0]
    /\ log = [s \in Streams |-> <<>>]
    /\ raised = [s \in Streams |-> ""]

\* responses other than 200 received so far
RECURSIVE FaultsIn(_)
FaultsIn(reqs) ==
    IF Len(reqs) = 0 THEN 0
    ELSE FaultsIn(Tail(reqs)) + (IF Head(reqs).response.status = 200 THEN 0 ELSE 1)

Faults == FaultsIn(requests[1]) + FaultsIn(requests[2])

\* request_records: prepare the request from the paginator's value, send it,
\* validate the response.  A retriable error is retried by the transport
\* until MaxTries attempts are spent.
Request(s) ==
    /\ tap = "running" /\ cur = s /\ pc[s] = "request"
    /\ LET params == get_url_params(streams[s], paginator[s])
       IN \E r \in Responses(streams[s].db, params) :
            LET exc == validate_response(r)
            IN  /\ r.status = 200 \/ Faults < MaxFaults
                /\ requests' = [requests EXCEPT ![s] =
                        Append(@, [params |-> params, response |-> r,
                                   token |-> paginator[s]])]
                /\ response' = [response EXCEPT ![s] = r]
                /\ tries' = [tries EXCEPT ![s] = @ + 1]
                /\ log' = [log EXCEPT ![s] =
                        @ \o validate_response_log(r)
                          \o (IF get_records_catches(exc)
                              THEN <<"warning: 403">> ELSE <<>>)]
                /\ pc' = [pc EXCEPT ![s] =
                        IF exc = "" THEN "parse"
                        ELSE IF get_records_catches(exc) THEN "done"
                        ELSE IF exc = "RetriableAPIError" /\ tries[s] + 1 < MaxTries
                        THEN "request"
                        ELSE "failed"]
                /\ raised' = [raised EXCEPT ![s] =
                        IF exc = "" \/ get_records_catches(exc) THEN ""
                        ELSE IF exc = "RetriableAPIError" /\ tries[s] + 1 < MaxTries
                        THEN ""
                        ELSE exc]
    /\ UNCHANGED <<streams, cur, tap, paginator, state, yielded, emitted>>
    /\ UNCHANGED <<dvars, xvars, evars>>

\* request_records: the records of the page are yielded one by one and the
\* sync loop writes each one's replication-key value to the state; an empty
\* page ends the pagination.
Parse(s) ==
    /\ tap = "running" /\ cur = s /\ pc[s] = "parse"
    /\ LET page == response[s].page
           db == streams[s].db
       IN  IF NumRecords(page) = 0
           THEN /\ pc' = [pc EXCEPT ![s] = "done"]
                /\ UNCHANGED <<yielded, emitted, state>>
           ELSE /\ pc' = [pc EXCEPT ![s] = "advance"]
                /\ yielded' = [yielded EXCEPT ![s] =
                        [i \in 1..Len(db) |-> Max(@[i], page[i].hi)]]
                /\ emitted' = [emitted EXCEPT ![s] = @ + NumRecords(page)]
                /\ state' = [state EXCEPT ![s] =
                        IF streams[s].replication_key = None THEN @
                        ELSE Some(db[LastGroup(page)].val)]
    /\ UNCHANGED <<streams, cur, tap, paginator, tries, response, requests,
                   log, raised>>
    /\ UNCHANGED <<dvars, xvars, evars>>

\* faulty variant: advance does not detect a repeated value
Advance_without_loop_detection(s) ==
    /\ tap = "running" /\ cur = s /\ pc[s] = "advance"
    /\ LET new_value == get_next(streams[s], paginator[s], state[s])
       IN  IF new_value = None
           THEN /\ pc' = [pc EXCEPT ![s] = "done"]
                /\ UNCHANGED <<paginator, raised>>
           ELSE /\ pc' = [pc EXCEPT ![s] = "request"]
                /\ paginator' = [paginator EXCEPT ![s] = new_value[1]]
                /\ UNCHANGED raised
    /\ tries' = [tries EXCEPT ![s] = 0]
    /\ UNCHANGED <<streams, cur, tap, state, response, requests, yielded,
                   emitted, log>>
    /\ UNCHANGED <<dvars, xvars, evars>>

\* BaseAPIPaginator.advance with the paginator of get_new_paginator
Advance(s) ==
    /\ tap = "running" /\ cur = s /\ pc[s] = "advance"
    /\ LET new_value == get_next(streams[s], paginator[s], state[s])
       IN  IF new_value = None
           THEN /\ pc' = [pc EXCEPT ![s] = "done"]
                /\ UNCHANGED <<paginator, raised>>
           ELSE IF new_value[1] = paginator[s]
           THEN /\ pc' = [pc EXCEPT ![s] = "failed"]
                /\ raised' = [raised EXCEPT ![s] = "RuntimeError"]
                /\ UNCHANGED paginator
           ELSE /\ pc' = [pc EXCEPT ![s] = "request"]
                /\ paginator' = [paginator EXCEPT ![s] = new_value[1]]
                /\ UNCHANGED raised
    /\ tries' = [tries EXCEPT ![s] = 0]
    /\ UNCHANGED <<streams, cur, tap, state, response, requests, yielded,
                   emitted, log>>
    /\ UNCHANGED <<dvars, xvars, evars>>

\* the stream's sync returned: the next stream starts, or the run succeeds
StreamDone(s) ==
    /\ tap = "running" /\ cur = s /\ pc[s] = "done"
    /\ IF s < LastStream
       THEN /\ cur' = s + 1
            /\ pc' = [pc EXCEPT ![s + 1] = "request"]
            /\ UNCHANGED tap
       ELSE /\ tap' = "success"
            /\ UNCHANGED <<cur, pc>>
    /\ UNCHANGED <<streams, paginator, tries, state, response, requests,
                   yielded, emitted, log, raised>>
    /\ UNCHANGED <<dvars, xvars, evars>>

\* an exception escaped the stream's sync: the run ends with it
StreamFailed(s) ==
    /\ tap = "running" /\ cur = s /\ pc[s] = "failed"
    /\ tap' = "aborted"
    /\ UNCHANGED <<streams, cur, pc, paginator, tries, state, response,
                   requests, yielded, emitted, log, raised>>
    /\ UNCHANGED <<dvars, xvars, evars>>

Next ==
    \E s \in Streams :
        \/ Request(s)
        \/ Parse(s)
        \/ Advance(s)
        \/ StreamDone(s)
        \/ StreamFailed(s)

Spec == Init /\ [][Next]_vars

\* a request that the server answers, honouring $top, $skip, $orderby and
\* $filter
HonouredRequest(s) == Request(s) /\ response'[s].status = 200

NextHonoured ==
    \E s \in Streams :
        \/ HonouredRequest(s)
        \/ Parse(s)
        \/ Advance(s)
        \/ StreamDone(s)
        \/ StreamFailed(s)

\* a run against such a server; it is one sequential loop: whenever a step
\* is possible it is taken
FairSpecHonoured == Init /\ [][NextHonoured]_vars /\ WF_vars(NextHonoured)

(***************************************************************************)
(* Properties of the replication engine.                                   *)
(***************************************************************************)
Keyed(s) == streams[s].replication_key /= None

Status(s, i) == requests[s][i].response.status

Records(s, i) == NumRecords(requests[s][i].response.page)

\* replication-key value of the last record of the i-th response
LastValue(s, i) ==
    streams[s].db[LastGroup(requests[s][i].response.page)].val

AllOk(s) == \A i \in 1..Len(requests[s]) : Status(s, i) = 200

\* C1: cursor mode, non-empty first response whose last record has
\* replication-key value T1: the second request carries the filter
\* "<replicationKey> gt T1".
C1_SecondRequestFiltersAfterLastRecord ==
    \A s \in Streams :
        (/\ Keyed(s)
         /\ Len(requests[s]) >= 2
         /\ Status(s, 1) = 200
         /\ Records(s, 1) > 0)
        => requests[s][2].params.filter =
               Some([key |-> streams[s].replication_key[1], op |-> "gt",
                     ts |-> LastValue(s, 1)])

\* C2 as stated: offset mode, a first response of exactly pageSize records
\* and a second response of fewer: no third request is made.
C2_Original_TwoRequestsAfterShortPage ==
    \A s \in Streams :
        (/\ ~Keyed(s)
         /\ Len(requests[s]) >= 2
         /\ Status(s, 1) = 200 /\ Records(s, 1) = page_size(streams[s].name)
         /\ Status(s, 2) = 200 /\ Records(s, 2) < page_size(streams[s].name))
        => Len(requests[s]) = 2

\* C2 amended: offset mode, a first response of exactly pageSize records and
\* a second response of fewer: if the second response is empty the run ends
\* after these two requests; if it holds records, a third request with
\* $skip = 2 * pageSize is issued before the run ends.
C2_ShortPageStopsOnlyWhenEmpty ==
    \A s \in Streams :
        (/\ ~Keyed(s)
         /\ Len(requests[s]) >= 2
         /\ Status(s, 1) = 200 /\ Records(s, 1) = page_size(streams[s].name)
         /\ Status(s, 2) = 200 /\ Records(s, 2) < page_size(streams[s].name))
        => /\ Records(s, 2) = 0 =>
                Len(requests[s]) = 2 /\ pc[s] \in {"parse", "done"}
           /\ Records(s, 2) > 0 =>
                /\ pc[s] \in {"done", "failed"} => Len(requests[s]) >= 3
                /\ Len(requests[s]) >= 3 =>
                     requests[s][3].params.skip =
                         Some(2 * page_size(streams[s].name))

C2_Witness ==
    /\ ~Keyed(1)
    /\ Len(requests[1]) = 3
    /\ AllOk(1)
    /\ Records(1, 1) = page_size(streams[1].name)
    /\ Records(1, 2) > 0 /\ Records(1, 2) < page_size(streams[1].name)
    /\ pc[1] = "done"

RECURSIVE RecordsBefore(_, _)
RecordsBefore(s, i) ==
    IF i <= 1 THEN 0 ELSE RecordsBefore(s, i - 1) + Records(s, i - 1)

Warnings(s) == SelectSeq(log[s], LAMBDA m : m = "warning: 403")

\* C3: a 403 at any point of a stream's pagination: no further request for
\* the stream, exactly one warning logged, no exception escapes get_records,
\* the records of the earlier pages stay yielded and the streams after it
\* are still synced.
C3_ForbiddenIsSkipped ==
    \A s \in Streams : \A i \in 1..Len(requests[s]) :
        Status(s, i) = 403 =>
            /\ i = Len(requests[s])
            /\ Len(Warnings(s)) = 1
            /\ raised[s] = "" /\ pc[s] = "done"
            /\ emitted[s] = RecordsBefore(s, i)
            /\ ~(tap = "aborted" /\ cur = s)
            /\ (tap /= "running" /\ s < LastStream) => pc[s + 1] /= "idle"

C3_Witness ==
    /\ Len(requests[1]) >= 2 /\ Status(1, Len(requests[1])) = 403
    /\ emitted[1] > 0
    /\ tap = "success" /\ emitted[2] = 1

\* C4: cursor mode, a complete run (every response a success): every record
\* whose replication-key value is >= the starting timestamp (every record
\* when there is none) has been yielded, ties with the last record of a full
\* page included.
C4_CursorModeYieldsEveryRecord ==
    \A s \in Streams :
        (Keyed(s) /\ pc[s] = "done" /\ AllOk(s)) =>
            \A i \in 1..Len(streams[s].db) :
                (streams[s].start = None
                 \/ streams[s].db[i].val >= streams[s].start[1])
                => yielded[s][i] = streams[s].db[i].cnt

LastResponse(s) == requests[s][Len(requests[s])].response

\* C6: a 400 whose body carries a transient-server phrase is raised as a
\* retriable error, not as the fatal error of the other 400 responses.
C6_TransientBadRequestIsRetriable ==
    \A s \in Streams :
        (/\ Len(requests[s]) > 0
         /\ LastResponse(s).status = 400 /\ LastResponse(s).transient)
        => raised[s] /= "FatalAPIError"

Hints(s) ==
    SelectSeq(log[s], LAMBDA m :
        m = "error: Too many properties requested - reduce selection and try again")

\* C7 as stated: a 414 is logged with the hint and then skipped like a 403:
\* fetching stops for that stream only and the run is not aborted.
C7_Original_UriTooLongIsSkipped ==
    \A s \in Streams : \A i \in 1..Len(requests[s]) :
        Status(s, i) = 414 =>
            /\ Len(Hints(s)) = 1
            /\ i = Len(requests[s])
            /\ raised[s] = "" /\ pc[s] = "done"
            /\ ~(tap = "aborted" /\ cur = s)

\* C7 amended: a 414 is logged with the "reduce selection" hint and is then
\* fatal: no further request for the stream, the error escapes get_records
\* uncaught (no warning), the run aborts and later streams are not synced.
C7_UriTooLongIsLoggedThenFatal ==
    \A s \in Streams : \A i \in 1..Len(requests[s]) :
        Status(s, i) = 414 =>
            /\ Len(Hints(s)) = 1 /\ log[s][Len(log[s])] = Hints(s)[1]
            /\ i = Len(requests[s])
            /\ Len(Warnings(s)) = 0
            /\ raised[s] = "FatalAPIError" /\ pc[s] = "failed"
            /\ tap \in {"running", "aborted"} /\ cur = s
            /\ s < LastStream => pc[s + 1] = "idle" /\ requests[s + 1] = <<>>

C7_Witness ==
    /\ Len(requests[1]) >= 2 /\ Status(1, Len(requests[1])) = 414
    /\ emitted[1] > 0
    /\ tap = "aborted" /\ pc[2] = "idle"

Skip(s, i) == requests[s][i].params.skip

\* C13 as stated: offset mode: the first request has $skip = 0 and
\* $top = pageSize, and each following request's $skip is the previous
\* request's $skip plus the number of records the previous response returned.
C13_Original_SkipAdvancesByRecordsReturned ==
    \A s \in Streams : \A i \in 1..Len(requests[s]) :
        ~Keyed(s) =>
            /\ requests[s][i].params.top = page_size(streams[s].name)
            /\ i = 1 => Skip(s, i) = Some(0)
            /\ i > 1 => Skip(s, i) = Some(Skip(s, i - 1)[1] + Records(s, i - 1))

\* C13 amended: offset mode: the first request has $skip = 0, every request
\* has $top = pageSize, and each request that follows a non-empty successful
\* response has the previous request's $skip plus pageSize, whatever the
\* number of records that response returned; a request re-sent after a
\* retriable error keeps its $skip.
C13_SkipAdvancesByPageSize ==
    \A s \in Streams : \A i \in 1..Len(requests[s]) :
        ~Keyed(s) =>
            /\ requests[s][i].params.top = page_size(streams[s].name)
            /\ i = 1 => Skip(s, i) = Some(0)
            /\ (i > 1 /\ Status(s, i - 1) = 200) =>
                    /\ Records(s, i - 1) > 0
                    /\ Skip(s, i) =
                         Some(Skip(s, i - 1)[1] + page_size(streams[s].name))
            /\ (i > 1 /\ Status(s, i - 1) /= 200) =>
                    /\ Status(s, i - 1) = 500
                    /\ Skip(s, i) = Skip(s, i - 1)

C13_Witness ==
    /\ ~Keyed(1) /\ streams[1].name = "Users"
    /\ Len(requests[1]) = 4
    /\ Records(1, 1) = 1000
    /\ Status(1, 2) = 500
    /\ Status(1, 3) = 200 /\ Records(1, 3) = 1
    /\ Skip(1, 3) = Some(1000)
    /\ Skip(1, 4) = Some(2000)

Forbidden(s) ==
    SelectSeq(requests[s], LAMBDA q : q.response.status = 403)

ExpectedTop(name) ==
    CASE name = "Users" -> 1000
      [] name = "ReviewResponses" -> 5000
      [] name = "LearningPlanEvidences" -> 5000
      [] OTHER -> 100000

\* C19: with a replication key every request carries $orderby = the key and
\* no $skip; the first request (and its re-sends) carries "key ge S" exactly
\* when a starting timestamp S exists, and every later request carries the
\* "gt" filter of the paginator's value in its place.  Without a replication
\* key every request carries $skip = the paginator's offset and neither
\* $orderby nor $filter.  Every request carries $top = the stream's page size.
C19_StrategyExclusivity ==
    \A s \in Streams : \A i \in 1..Len(requests[s]) :
        LET q == requests[s][i]
            p == q.params
        IN  /\ p.top = ExpectedTop(streams[s].name)
            /\ Keyed(s) =>
                /\ p.orderby = Some("UpdatedDate")
                /\ p.skip = None
                /\ q.token.kind \in {"none", "datetime"}
                /\ i = 1 => q.token.kind = "none"
                /\ (i > 1 /\ Status(s, i - 1) = 200) => q.token.kind = "datetime"
                /\ (i > 1 /\ Status(s, i - 1) /= 200) =>
                        q.token = requests[s][i - 1].token
                /\ (q.token.kind = "none" /\ streams[s].start = None)
                        => p.filter = None
                /\ (q.token.kind = "none" /\ streams[s].start /= None)
                        => p.filter =
                            Some([key |-> "UpdatedDate", op |-> "ge",
                                  ts |-> (streams[s].start[1] \div Grain) * Grain])
                /\ q.token.kind = "datetime"
                        => p.filter =
                            Some([key |-> "UpdatedDate", op |-> "gt",
                                  ts |-> q.token.v])
            /\ ~Keyed(s) =>
                /\ q.token.kind = "int"
                /\ p.skip = Some(q.token.v)
                /\ p.orderby = None
                /\ p.filter = None

C19_Witness ==
    /\ Keyed(1) /\ streams[1].name = "Learners"
    /\ streams[1].start /= None
    /\ Len(requests[1]) = 2 /\ AllOk(1)
    /\ requests[1][1].params.filter[1].op = "ge"
    /\ requests[1][2].params.filter[1].op = "gt"
    /\ requests[1][2].params.top = 100000
    /\ Len(requests[2]) = 2
    /\ requests[2][2].params.skip = Some(5000)
    /\ requests[2][2].params.top = 5000

RECURSIVE TotalRecords(_)
TotalRecords(db) ==
    IF Len(db) = 0 THEN 0 ELSE Head(db).cnt + TotalRecords(Tail(db))

\* requests a run needs at most when every response is a success
RequestBound(s) ==
    IF Keyed(s) THEN Len(streams[s].db) + 1
    ELSE (TotalRecords(streams[s].db) + page_size(streams[s].name) - 1)
            \div page_size(streams[s].name) + 1

\* the requests of a stream whose server answers every request stay within
\* the bound its finite record set gives, and in cursor mode each request
\* that follows a success carries a greater cursor than the one before it
BoundedRequests ==
    \A s \in Streams :
        /\ AllOk(s) => Len(requests[s]) <= RequestBound(s)
        /\ Keyed(s) =>
            \A i \in 2..Len(requests[s]) :
                /\ (Status(s, i - 1) = 200
                    /\ requests[s][i - 1].token.kind = "datetime")
                    => requests[s][i].token.v > requests[s][i - 1].token.v
                /\ AllOk(s) =>
                    \A j \in 1..(i - 1) :
                        requests[s][j].token /= requests[s][i].token

\* C20: against a server holding a finite record set, every run issues
\* finitely many requests and then finishes; in cursor mode the cursor of
\* successive requests is strictly increasing, so no cursor value is
\* requested twice.
C20_RunTerminates ==
    /\ <>(tap /= "running")
    /\ []BoundedRequests

C20_Witness ==
    /\ Keyed(1) /\ AllOk(1)
    /\ Len(requests[1]) = 3
    /\ requests[1][2].token.kind = "datetime"
    /\ requests[1][2].token.v < requests[1][3].token.v
    /\ Records(1, 3) = 0
    /\ tap = "success"

(***************************************************************************)
(* Request shaping: the same run, started from streams whose selection     *)
(* mask and child streams vary.                                            *)
(***************************************************************************)
Range(seq) == {seq[i] : i \in 1..Len(seq)}

Masks(properties) == [Range(properties) -> BOOLEAN]

ChildStreamChoices ==
    { <<>>,
      <<[name |-> "Notes", selected |-> FALSE]>>,
      <<[name |-> "Notes", selected |-> TRUE],
        [name |-> "Reviews", selected |-> FALSE]>>,
      <<[name |-> "Notes", selected |-> TRUE],
        [name |-> "Reviews", selected |-> TRUE]>> }

SmallDatabases(P) ==
    { <<>>, <<[val |-> 7, cnt |-> 1]>>,
      <<[val |-> 0, cnt |-> P], [val |-> 7, cnt |-> 1]>> }

ShapedEntities(n) ==
    {[name |-> n, replication_key |-> Some("UpdatedDate"), start |-> s,
      child_streams |-> cs, properties |-> <<"Id", "UpdatedDate">>,
      mask |-> m, db |-> d] :
        s \in {None, Some(7)}, cs \in ChildStreamChoices,
        m \in Masks(<<"Id", "UpdatedDate">>),
        d \in SmallDatabases(page_size(n))}
    \cup
    {[name |-> n, replication_key |-> None, start |-> None,
      child_streams |-> cs, properties |-> <<"Id", "Name">>,
      mask |-> m, db |-> d] :
        cs \in ChildStreamChoices, m \in Masks(<<"Id", "Name">>),
        d \in SmallDatabases(page_size(n))}

InitShaping ==
    /\ \E n \in EntityNames : \E e \in ShapedEntities(n) :
            streams = <<e, Sibling>>
    /\ DiscoveryIdle
    /\ BuildIdle
    /\ EmbeddedIdle
    /\ cur = 1
    /\ tap = "running"
    /\ pc = <<"request", "idle">>
    /\ paginator = [s \in Streams |-> get_new_paginator(streams[s])]
    /\ tries = [s \in Streams |-> 0]
    /\ state = [s \in Streams |-> streams[s].start]
    /\ response = [s \in Streams |-> NoResponse]
    /\ requests = [s \in Streams |-> <<>>]
    /\ yielded = [s \in Streams |-> [i \in 1..Len(streams[s].db) |-> 0]]
    /\ emitted = [s \in Streams |-> 0]
    /\ log = [s \in Streams |-> <<>>]
    /\ raised = [s \in Streams |-> ""]

SpecShaping == InitShaping /\ [][Next]_vars

Selected(s) == {c \in Range(streams[s].properties) : streams[s].mask[c]}

\* the selected property names in schema order, comma-joined
SelectedList(s) ==
    Join(SelectSeq(streams[s].properties, LAMBDA c : c \in Selected(s)))

\* C5 as stated: $select lists exactly the selected properties when they are
\* a strict subset of the schema's, and is omitted when all are selected.
C5_Original_SelectOmittedWhenAllSelected ==
    \A s \in Streams : \A i \in 1..Len(requests[s]) :
        /\ (Selected(s) /= {} /\ Selected(s) /= Range(streams[s].properties))
            => requests[s][i].params.select = Some(SelectedList(s))
        /\ Selected(s) = Range(streams[s].properties)
            => requests[s][i].params.select = None

\* C5 amended: $select lists exactly the selected properties whenever at
\* least one property is selected, also when every property is selected; it
\* is omitted only when no property is selected.
C5_SelectListsSelectedProperties ==
    \A s \in Streams : \A i \in 1..Len(requests[s]) :
        /\ Selected(s) /= {}
            => requests[s][i].params.select = Some(SelectedList(s))
        /\ Selected(s) = {} => requests[s][i].params.select = None

C5_Witness ==
    /\ Len(requests[1]) >= 2
    /\ Selected(1) = {"UpdatedDate"}
    /\ requests[1][2].params.select = Some("UpdatedDate")
    /\ Selected(2) = Range(streams[2].properties)
    /\ Len(requests[2]) >= 1
    /\ requests[2][1].params.select = Some("Id")

\* names of the child streams of s that are selected
SelectedChildren(s) ==
    {streams[s].child_streams[i].name :
        i \in {j \in 1..Len(streams[s].child_streams) :
                    streams[s].child_streams[j].selected}}

\* C16: in every request of a parent entity, $expand is present if and only
\* if at least one of its child streams is selected, and its value is the
\* comma-joined names of exactly the selected child streams.
C16_ExpandListsSelectedChildren ==
    \A s \in Streams : \A i \in 1..Len(requests[s]) :
        LET expand == requests[s][i].params.expand
        IN  /\ expand /= None <=> SelectedChildren(s) /= {}
            /\ SelectedChildren(s) = {"Notes"} => expand = Some("Notes")
            /\ SelectedChildren(s) = {"Notes", "Reviews"}
                    => expand = Some("Notes,Reviews")

C16_Witness ==
    /\ Len(requests[1]) >= 2
    /\ Len(streams[1].child_streams) = 2
    /\ SelectedChildren(1) = {"Notes"}
    /\ requests[1][2].params.expand = Some("Notes")
    /\ Len(requests[2]) >= 1
    /\ requests[2][1].params.expand = None

(***************************************************************************)
(* metadata.py                                                             *)
(*                                                                         *)
(* A document is [schemas, containers].  A Schema element is [Namespace,   *)
(* EntityTypes, ComplexTypes]; an EntityType is [Name, Keys, Properties],  *)
(* Keys holding, per Key element, the names of its PropertyRef children;   *)
(* a ComplexType is [Name, OpenType, Properties]; a Property is [Name,     *)
(* Type]; an EntityContainer is a sequence of EntitySet elements [Name,    *)
(* EntityType].  Everything is in document order.  A type reference is     *)
(* [coll, base]: base wrapped in coll layers of "Collection(...)".         *)
(* A Python dict is a sequence of [k, v] entries in insertion order.       *)
(***************************************************************************)
EDM_TYPE_MAP ==
    [t \in {"Edm.String", "Edm.Boolean", "Edm.Int16", "Edm.Int32", "Edm.Int64",
            "Edm.Byte", "Edm.SByte", "Edm.Decimal", "Edm.Double", "Edm.Single",
            "Edm.DateTime", "Edm.DateTimeOffset", "Edm.Date", "Edm.TimeOfDay",
            "Edm.Guid", "Edm.Binary"} |->
        CASE t \in {"Edm.String", "Edm.Binary"} -> "StringType"
          [] t = "Edm.Boolean" -> "BooleanType"
          [] t \in {"Edm.Int16", "Edm.Int32", "Edm.Int64", "Edm.Byte",
                    "Edm.SByte"} -> "IntegerType"
          [] t \in {"Edm.Decimal", "Edm.Double", "Edm.Single"} -> "NumberType"
          [] t \in {"Edm.DateTime", "Edm.DateTimeOffset"} -> "DateTimeType"
          [] t = "Edm.Date" -> "DateType"
          [] t = "Edm.TimeOfDay" -> "TimeType"
          [] t = "Edm.Guid" -> "UUIDType"]

\* d[k] = v on a dict: an existing key keeps its place and takes the value
DictSet(d, k, v) ==
    IF \E i \in 1..Len(d) : d[i].k = k
    THEN [i \in 1..Len(d) |-> IF d[i].k = k THEN [k |-> k, v |-> v] ELSE d[i]]
    ELSE Append(d, [k |-> k, v |-> v])

DictHas(d, k) == \E i \in 1..Len(d) : d[i].k = k

DictGet(d, k) == d[CHOOSE i \in 1..Len(d) : d[i].k = k].v

\* the dict built by setting the entries of a sequence one after the other
RECURSIVE DictOf(_)
DictOf(entries) ==
    IF Len(entries) = 0 THEN <<>>
    ELSE LET last == entries[Len(entries)]
         IN  DictSet(DictOf(SubSeq(entries, 1, Len(entries) - 1)),
                     last.k, last.v)

RECURSIVE Flatten(_)
Flatten(seqs) ==
    IF Len(seqs) = 0 THEN <<>> ELSE Head(seqs) \o Flatten(Tail(seqs))

\* f"{namespace}.{name}"
type_id(namespace, name) == namespace \o "." \o name

_extract_properties(type_element) ==
    DictOf([i \in 1..Len(type_element.Properties) |->
        [k |-> type_element.Properties[i].Name,
         v |-> type_element.Properties[i].Type]])

\* faulty variant: a ComplexType is open whenever it carries the attribute
_extract_complex_types_open_if_present(root) ==
    DictOf(Flatten([i \in 1..Len(root.schemas) |->
        [j \in 1..Len(root.schemas[i].ComplexTypes) |->
            LET complex_type == root.schemas[i].ComplexTypes[j]
            IN  [k |-> type_id(root.schemas[i].Namespace, complex_type.Name),
                 v |-> [name |-> complex_type.Name,
                        properties |-> _extract_properties(complex_type),
                        open_type |-> complex_type.OpenType /= None]]]]))

_extract_complex_types(root) ==
    DictOf(Flatten([i \in 1..Len(root.schemas) |->
        [j \in 1..Len(root.schemas[i].ComplexTypes) |->
            LET complex_type == root.schemas[i].ComplexTypes[j]
            IN  [k |-> type_id(root.schemas[i].Namespace, complex_type.Name),
                 v |-> [name |-> complex_type.Name,
                        properties |-> _extract_properties(complex_type),
                        open_type |-> complex_type.OpenType = Some("true")]]]]))

\* faulty variant: one entry per EntitySet, a later one does not replace an earlier
_extract_entity_sets_by_type_all(root) ==
    Flatten([i \in 1..Len(root.containers) |->
        [j \in 1..Len(root.containers[i]) |->
            [k |-> root.containers[i][j].EntityType,
             v |-> root.containers[i][j].Name]]])

_extract_entity_sets_by_type(root) ==
    DictOf(Flatten([i \in 1..Len(root.containers) |->
        [j \in 1..Len(root.containers[i]) |->
            [k |-> root.containers[i][j].EntityType,
             v |-> root.containers[i][j].Name]]]))

\* faulty variant: only the first Key element is read
_extract_entities_by_type_first_key(root) ==
    DictOf(Flatten([i \in 1..Len(root.schemas) |->
        [j \in 1..Len(root.schemas[i].EntityTypes) |->
            LET entity_type == root.schemas[i].EntityTypes[j]
            IN  [k |-> type_id(root.schemas[i].Namespace, entity_type.Name),
                 v |-> [name |-> entity_type.Name,
                        properties |-> _extract_properties(entity_type),
                        keys |-> IF Len(entity_type.Keys) = 0 THEN <<>>
                                 ELSE entity_type.Keys[1]]]]]))

_extract_entities_by_type(root) ==
    DictOf(Flatten([i \in 1..Len(root.schemas) |->
        [j \in 1..Len(root.schemas[i].EntityTypes) |->
            LET entity_type == root.schemas[i].EntityTypes[j]
            IN  [k |-> type_id(root.schemas[i].Namespace, entity_type.Name),
                 v |-> [name |-> entity_type.Name,
                        properties |-> _extract_properties(entity_type),
                        keys |-> Flatten(entity_type.Keys)]]]]))

\* the schema of a type reference; the recursion follows the ComplexType
\* references and ends on the documents whose references are acyclic
RECURSIVE _type_to_jsonschema(_, _)
_type_to_jsonschema(prop_type, complex_types) ==
    IF prop_type.coll > 0
    THEN [kind |-> "ArrayType",
          items |-> _type_to_jsonschema(
                        [prop_type EXCEPT !.coll = @ - 1], complex_types)]
    ELSE IF DictHas(complex_types, prop_type.base)
    THEN LET complex_type == DictGet(complex_types, prop_type.base)
         IN  [kind |-> "ObjectType",
              properties |->
                  [i \in 1..Len(complex_type.properties) |->
                      [name |-> complex_type.properties[i].k,
                       type |-> _type_to_jsonschema(
                                    complex_type.properties[i].v,
                                    complex_types)]],
              additional_properties |-> complex_type.open_type]
    ELSE IF prop_type.base \in DOMAIN EDM_TYPE_MAP
    THEN [kind |-> EDM_TYPE_MAP[prop_type.base]]
    ELSE [kind |-> "StringType"]

_properties_to_jsonschema(properties, complex_types) ==
    [i \in 1..Len(properties) |->
        [name |-> properties[i].k,
         type |-> _type_to_jsonschema(properties[i].v, complex_types)]]

\* faulty variant: the replication key is found whatever the letter case
DiscoveredEntity_any_case(entity_set_name, entity, complex_types) ==
    LET properties == _properties_to_jsonschema(entity.properties, complex_types)
    IN  [name |-> entity_set_name,
         jsonschema |-> properties,
         primary_keys |-> entity.keys,
         replication_key |->
             IF \E i \in 1..Len(properties) :
                    properties[i].name \in {"UpdatedDate", "updateddate"}
             THEN Some("UpdatedDate") ELSE None]

\* the DiscoveredEntity of one item of entity_sets_by_type
DiscoveredEntity(entity_set_name, entity, complex_types) ==
    LET properties == _properties_to_jsonschema(entity.properties, complex_types)
    IN  [name |-> entity_set_name,
         jsonschema |-> properties,
         primary_keys |-> entity.keys,
         replication_key |->
             IF \E i \in 1..Len(properties) : properties[i].name = "UpdatedDate"
             THEN Some("UpdatedDate") ELSE None]

\* discover_entities up to its first yield: the three indexes are built
DiscoverStart ==
    /\ dpc = "start"
    /\ dpc' = "iterating"
    /\ idx' = 1
    /\ indexes' = [complex_types |-> _extract_complex_types(doc),
                   entity_sets_by_type |-> _extract_entity_sets_by_type(doc),
                   entities_by_type |-> _extract_entities_by_type(doc)]
    /\ UNCHANGED <<doc, discovered, derror>>
    /\ UNCHANGED <<pvars, xvars, evars>>

\* one turn of the loop over entity_sets_by_type.items(): the entity is
\* looked up (a KeyError when the type is not declared) and yielded
DiscoverNext ==
    /\ dpc = "iterating"
    /\ LET entity_sets_by_type == indexes.entity_sets_by_type
           entities_by_type == indexes.entities_by_type
           complex_types == indexes.complex_types
       IN  IF idx > Len(entity_sets_by_type)
           THEN /\ dpc' = "done"
                /\ UNCHANGED <<idx, discovered, derror>>
           ELSE IF ~DictHas(entities_by_type, entity_sets_by_type[idx].k)
           THEN /\ dpc' = "failed"
                /\ derror' = "KeyError"
                /\ UNCHANGED <<idx, discovered>>
           ELSE /\ discovered' = Append(discovered,
                        DiscoveredEntity(
                            entity_sets_by_type[idx].v,
                            DictGet(entities_by_type, entity_sets_by_type[idx].k),
                            complex_types))
                /\ idx' = idx + 1
                /\ UNCHANGED <<dpc, derror>>
    /\ UNCHANGED <<doc, indexes>>
    /\ UNCHANGED <<pvars, xvars, evars>>

NextDiscovery == DiscoverStart \/ DiscoverNext

(***************************************************************************)
(* Discovery over a bounded family of metadata documents: one Schema with  *)
(* namespace NS, the EntityType Learner and possibly Review (names unique  *)
(* within the schema, as CSDL requires), one ComplexType, and up to        *)
(* MaxEntitySets EntitySet elements in one or several EntityContainers.    *)
(***************************************************************************)
Prim(base) == [coll |-> 0, base |-> base]

PropertyChoices ==
    { << [Name |-> "Id", Type |-> Prim("Edm.Int32")],
         [Name |-> "Code", Type |-> Prim("Edm.String")] >>,
      << [Name |-> "Id", Type |-> Prim("Edm.Int32")],
         [Name |-> "Code", Type |-> Prim("Edm.String")],
         [Name |-> "UpdatedDate", Type |-> Prim("Edm.DateTimeOffset")] >>,
      << [Name |-> "Code", Type |-> Prim("Edm.String")],
         [Name |-> "Id", Type |-> Prim("Edm.Int32")],
         [Name |-> "Address", Type |-> Prim("NS.Address")],
         [Name |-> "Tags", Type |-> [coll |-> 1, base |-> "Edm.String"]],
         [Name |-> "updateddate", Type |-> Prim("Edm.DateTimeOffset")] >> }

KeyChoices ==
    { <<>>,
      << <<"Id">> >>,
      << <<"Id", "Code">> >>,
      << <<"Code", "Id">> >>,
      << <<"Id">>, <<"Code">> >>,
      << <<"Id", "Id">> >>,
      << <<"Missing">> >> }

EntityTypeChoices(name) ==
    [Name : {name}, Keys : KeyChoices, Properties : PropertyChoices]

ComplexTypeChoices ==
    [Name : {"Address"},
     OpenType : {None, Some("true")},
     Properties : {<< [Name |-> "Street", Type |-> Prim("Edm.String")] >>}]

SchemaChoices ==
    {[Namespace |-> "NS", EntityTypes |-> <<l>>, ComplexTypes |-> <<c>>] :
        l \in EntityTypeChoices("Learner"), c \in ComplexTypeChoices}
    \cup
    {[Namespace |-> "NS", EntityTypes |-> <<l, r>>, ComplexTypes |-> <<c>>] :
        l \in EntityTypeChoices("Learner"), r \in EntityTypeChoices("Review"),
        c \in ComplexTypeChoices}

EntitySetChoices ==
    [Name : {"Learners", "Reviews", "Archive"},
     EntityType : {"NS.Learner", "NS.Review"}]

\* EntitySet names are unique within a document, as CSDL requires
EntitySetLists ==
    {sets \in UNION {[1..n -> EntitySetChoices] : n \in 0..MaxEntitySets} :
        \A i, j \in 1..Len(sets) : sets[i].Name = sets[j].Name => i = j}

\* all the EntitySets in one container, or each in a container of its own
ContainerChoices ==
    {<<sets>> : sets \in EntitySetLists}
    \cup {[i \in 1..Len(sets) |-> <<sets[i]>>] : sets \in EntitySetLists}

Documents ==
    [schemas : {<<sc>> : sc \in SchemaChoices}, containers : ContainerChoices]

PaginationIdle ==
    /\ streams = <<Sibling, Sibling>>
    /\ cur = 1
    /\ tap = "idle"
    /\ pc = <<"idle", "idle">>
    /\ paginator = [s \in Streams |-> get_new_paginator(streams[s])]
    /\ tries = [s \in Streams |-> 0]
    /\ state = [s \in Streams |-> None]
    /\ response = [s \in Streams |-> NoResponse]
    /\ requests = [s \in Streams |-> <<>>]
    /\ yielded = [s \in Streams |-> <<0>>]
    /\ emitted = [s \in Streams |-> 0]
    /\ log = [s \in Streams |-> <<>>]
    /\ raised = [s \in Streams |-> ""]

InitDiscovery ==
    /\ doc \in Documents
    /\ indexes = NoIndexes
    /\ dpc = "start"
    /\ idx = 0
    /\ discovered = <<>>
    /\ derror = ""
    /\ PaginationIdle
    /\ BuildIdle
    /\ EmbeddedIdle

SpecDiscovery == InitDiscovery /\ [][NextDiscovery]_vars

(***************************************************************************)
(* Properties of discovery.                                                *)
(***************************************************************************)
\* the EntitySet elements of the document, in document order
EntitySets == Flatten(doc.containers)

\* the EntityType elements of the document with their type identifiers
EntityTypes ==
    Flatten([i \in 1..Len(doc.schemas) |->
        [j \in 1..Len(doc.schemas[i].EntityTypes) |->
            [id |-> type_id(doc.schemas[i].Namespace,
                            doc.schemas[i].EntityTypes[j].Name),
             element |-> doc.schemas[i].EntityTypes[j]]]])

PropertyNames(jsonschema) == {jsonschema[i].name : i \in 1..Len(jsonschema)}

\* C8: discovery never emits a DiscoveredEntity whose primary keys name a
\* property that the EntityType does not declare; it fails instead.
C8_KeyOfUndeclaredPropertyIsFatal ==
    \A k \in 1..Len(discovered) :
        \A n \in 1..Len(discovered[k].primary_keys) :
            discovered[k].primary_keys[n] \in PropertyNames(discovered[k].jsonschema)

\* C9 as stated: after discovery, every EntitySet of the document has exactly
\* one DiscoveredEntity of its name, also when two EntitySets reference the
\* same EntityType.
C9_Original_OneEntityPerEntitySet ==
    dpc = "done" =>
        \A i \in 1..Len(EntitySets) :
            Cardinality({k \in 1..Len(discovered) :
                            discovered[k].name = EntitySets[i].Name}) = 1

\* positions of the EntitySets that are the first to reference their type
FirstReferences ==
    SelectSeq([i \in 1..Len(EntitySets) |-> i],
              LAMBDA i : \A j \in 1..(i - 1) :
                            EntitySets[j].EntityType /= EntitySets[i].EntityType)

\* position of the last EntitySet referencing the type of EntitySet i
LastReference(i) ==
    CHOOSE j \in 1..Len(EntitySets) :
        /\ EntitySets[j].EntityType = EntitySets[i].EntityType
        /\ \A m \in (j + 1)..Len(EntitySets) :
                EntitySets[m].EntityType /= EntitySets[i].EntityType

\* C9 amended: discovery emits one DiscoveredEntity per distinct EntityType
\* that an EntitySet references, in the order of the first references and
\* named after the last EntitySet referencing that type; an EntitySet whose
\* type a later EntitySet references again gets no entity of its own.
C9_OneEntityPerReferencedType ==
    /\ Len(discovered) <= Len(FirstReferences)
    /\ dpc = "done" => Len(discovered) = Len(FirstReferences)
    /\ \A k \in 1..Len(discovered) :
            discovered[k].name = EntitySets[LastReference(FirstReferences[k])].Name

C9_Witness ==
    /\ dpc = "done"
    /\ Len(EntitySets) = 2
    /\ EntitySets[1].EntityType = EntitySets[2].EntityType
    /\ EntitySets[1].Name = "Learners" /\ EntitySets[2].Name = "Reviews"
    /\ Len(discovered) = 1 /\ discovered[1].name = "Reviews"

\* number of PropertyRef elements in the first m Key elements
RECURSIVE RefsBefore(_, _)
RefsBefore(keys, m) ==
    IF m <= 1 THEN 0 ELSE RefsBefore(keys, m - 1) + Len(keys[m - 1])

\* C10: the primary keys of every emitted entity are exactly the PropertyRef
\* names under the Key elements of its EntityType, in document order, nothing
\* added, dropped, deduplicated or reordered.
C10_PrimaryKeysInDocumentOrder ==
    \A k \in 1..Len(discovered) : \A t \in 1..Len(EntityTypes) :
        EntityTypes[t].id = EntitySets[FirstReferences[k]].EntityType =>
            LET keys == EntityTypes[t].element.Keys
                pks == discovered[k].primary_keys
            IN  /\ Len(pks) = RefsBefore(keys, Len(keys) + 1)
                /\ \A m \in 1..Len(keys) : \A n \in 1..Len(keys[m]) :
                        pks[RefsBefore(keys, m) + n] = keys[m][n]

C10_Witness ==
    /\ dpc = "done"
    /\ Len(discovered) = 2
    /\ discovered[1].primary_keys = <<"Code", "Id">>
    /\ discovered[2].primary_keys = <<"Id", "Id">>

\* C11: the replication key of every emitted entity is "UpdatedDate" if
\* and only if its EntityType declares a property of exactly that name, and
\* absent otherwise; a present replication key is a property of the entity's
\* schema.
C11_ReplicationKeyIsUpdatedDate ==
    \A k \in 1..Len(discovered) : \A t \in 1..Len(EntityTypes) :
        EntityTypes[t].id = EntitySets[FirstReferences[k]].EntityType =>
            LET declared == {EntityTypes[t].element.Properties[i].Name :
                                i \in 1..Len(EntityTypes[t].element.Properties)}
            IN  /\ "UpdatedDate" \in declared
                    => discovered[k].replication_key = Some("UpdatedDate")
                /\ "UpdatedDate" \notin declared
                    => discovered[k].replication_key = None
                /\ discovered[k].replication_key /= None
                    => discovered[k].replication_key[1]
                            \in PropertyNames(discovered[k].jsonschema)

C11_Witness ==
    /\ dpc = "done"
    /\ Len(discovered) = 2
    /\ discovered[1].replication_key = Some("UpdatedDate")
    /\ discovered[2].replication_key = None
    /\ "updateddate" \in PropertyNames(discovered[2].jsonschema)

(***************************************************************************)
(* The schema expansion call by call.  discover_entities maps the          *)
(* properties of each entity with _properties_to_jsonschema, which calls   *)
(* _type_to_jsonschema per property; that function calls itself for the    *)
(* type a Collection(...) wraps and for every property of a ComplexType.   *)
(* frames is the stack of the calls under way: a frame holds the calls     *)
(* its call makes and the one it is at.  The interpreter raises            *)
(* RecursionError when the stack would grow beyond its limit.              *)
(***************************************************************************)
\* faulty variant: the Collection(...) wrapper is not stripped
callees_collection_unstripped(prop_type, complex_types) ==
    IF prop_type.coll > 0 THEN <<prop_type>>
    ELSE IF DictHas(complex_types, prop_type.base)
    THEN LET complex_type == DictGet(complex_types, prop_type.base)
         IN  [i \in 1..Len(complex_type.properties) |->
                 complex_type.properties[i].v]
    ELSE <<>>

\* the calls of _type_to_jsonschema that its call for prop_type makes
callees(prop_type, complex_types) ==
    IF prop_type.coll > 0 THEN <<[prop_type EXCEPT !.coll = @ - 1]>>
    ELSE IF DictHas(complex_types, prop_type.base)
    THEN LET complex_type == DictGet(complex_types, prop_type.base)
         IN  [i \in 1..Len(complex_type.properties) |->
                 complex_type.properties[i].v]
    ELSE <<>>

Frame(calls) == [calls |-> calls, i |-> 1]

\* one turn of the loop over entity_sets_by_type.items() up to the call of
\* _properties_to_jsonschema for the entity's properties
ExpandEnter ==
    /\ dpc = "iterating"
    /\ LET entity_sets_by_type == indexes.entity_sets_by_type
           entities_by_type == indexes.entities_by_type
       IN  IF idx > Len(entity_sets_by_type)
           THEN /\ dpc' = "done"
                /\ UNCHANGED <<derror, frames>>
           ELSE IF ~DictHas(entities_by_type, entity_sets_by_type[idx].k)
           THEN /\ dpc' = "failed"
                /\ derror' = "KeyError"
                /\ UNCHANGED frames
           ELSE LET entity == DictGet(entities_by_type,
                                      entity_sets_by_type[idx].k)
                IN  /\ frames' = <<Frame([i \in 1..Len(entity.properties) |->
                                            entity.properties[i].v])>>
                    /\ dpc' = "expanding"
                    /\ UNCHANGED derror
    /\ UNCHANGED <<doc, indexes, idx, discovered, built, bidx, bpc>>
    /\ UNCHANGED <<pvars, evars>>

\* the call under way makes its next call of _type_to_jsonschema
ExpandCall ==
    /\ dpc = "expanding"
    /\ LET top == frames[Len(frames)]
           complex_types == indexes.complex_types
       IN  /\ top.i <= Len(top.calls)
           /\ IF Len(frames) >= MaxDepth
              THEN /\ dpc' = "failed"
                   /\ derror' = "RecursionError"
                   /\ frames' = <<>>
              ELSE /\ frames' = Append(frames,
                        Frame(callees(top.calls[top.i], complex_types)))
                   /\ UNCHANGED <<dpc, derror>>
    /\ UNCHANGED <<doc, indexes, idx, discovered, built, bidx, bpc>>
    /\ UNCHANGED <<pvars, evars>>

\* the call under way has made its calls and returns its schema; when it is
\* the call for the entity's properties, the entity is yielded
ExpandReturn ==
    /\ dpc = "expanding"
    /\ LET top == frames[Len(frames)]
           entity_sets_by_type == indexes.entity_sets_by_type
           entities_by_type == indexes.entities_by_type
           complex_types == indexes.complex_types
       IN  /\ top.i > Len(top.calls)
           /\ IF Len(frames) = 1
              THEN /\ discovered' = Append(discovered,
                        DiscoveredEntity(
                            entity_sets_by_type[idx].v,
                            DictGet(entities_by_type, entity_sets_by_type[idx].k),
                            complex_types))
                   /\ idx' = idx + 1
                   /\ dpc' = "iterating"
                   /\ frames' = <<>>
              ELSE /\ frames' = [SubSeq(frames, 1, Len(frames) - 1)
                                    EXCEPT ![Len(frames) - 1].i = @ + 1]
                   /\ UNCHANGED <<discovered, idx, dpc>>
    /\ UNCHANGED <<doc, indexes, derror, built, bidx, bpc>>
    /\ UNCHANGED <<pvars, evars>>

NextExpansion == DiscoverStart \/ ExpandEnter \/ ExpandCall \/ ExpandReturn

(***************************************************************************)
(* Documents whose ComplexTypes A and B refer to one another or not: the   *)
(* EntityType Learner has a property of type NS.A, Collection(NS.A) or     *)
(* Edm.String, and the EntityType User has none of a ComplexType.          *)
(***************************************************************************)
OpenTypeChoices == {None, Some("true"), Some("false"), Some("True")}

ComplexTypeA ==
    [Name : {"A"},
     OpenType : OpenTypeChoices,
     Properties :
        { << [Name |-> "Street", Type |-> Prim("Edm.String")] >>,
          << [Name |-> "Street", Type |-> Prim("Edm.String")],
             [Name |-> "Part", Type |-> Prim("NS.B")] >>,
          << [Name |-> "Parts", Type |-> [coll |-> 1, base |-> "NS.B"]] >>,
          << [Name |-> "Next", Type |-> Prim("NS.A")] >>,
          << [Name |-> "Street", Type |-> Prim("Edm.String")],
             [Name |-> "Items", Type |-> [coll |-> 1, base |-> "NS.A"]] >> }]

ComplexTypeB ==
    [Name : {"B"},
     OpenType : {None, Some("true")},
     Properties :
        { << [Name |-> "City", Type |-> Prim("Edm.String")] >>,
          << [Name |-> "Back", Type |-> Prim("NS.A")] >>,
          << [Name |-> "Same", Type |-> Prim("NS.B")] >> }]

ExpansionEntityTypes ==
    { << [Name |-> "User", Keys |-> << <<"Id">> >>,
          Properties |-> << [Name |-> "Id", Type |-> Prim("Edm.Int32")] >>],
         [Name |-> "Learner", Keys |-> << <<"Id">> >>,
          Properties |-> << [Name |-> "Id", Type |-> Prim("Edm.Int32")],
                            [Name |-> "P", Type |-> t] >>] >> :
        t \in {Prim("NS.A"), [coll |-> 1, base |-> "NS.A"],
               Prim("Edm.String")} }

ExpansionContainers ==
    { << << [Name |-> "Users", EntityType |-> "NS.User"],
            [Name |-> "Learners", EntityType |-> "NS.Learner"] >> >>,
      << << [Name |-> "Learners", EntityType |-> "NS.Learner"],
            [Name |-> "Users", EntityType |-> "NS.User"] >> >> }

ExpansionDocuments ==
    {[schemas |-> << [Namespace |-> "NS", EntityTypes |-> ets,
                      ComplexTypes |-> <<a, b>>] >>,
      containers |-> c] :
        ets \in ExpansionEntityTypes, a \in ComplexTypeA, b \in ComplexTypeB,
        c \in ExpansionContainers}

InitExpansion ==
    /\ doc \in ExpansionDocuments
    /\ indexes = NoIndexes
    /\ dpc = "start"
    /\ idx = 0
    /\ discovered = <<>>
    /\ derror = ""
    /\ PaginationIdle
    /\ BuildIdle
    /\ EmbeddedIdle

SpecExpansion == InitExpansion /\ [][NextExpansion]_vars

\* discover_entities runs on its own: a call or return that can happen does
FairSpecExpansion ==
    InitExpansion /\ [][NextExpansion]_vars /\ WF_vars(NextExpansion)

(***************************************************************************)
(* Properties of the schema expansion.                                     *)
(***************************************************************************)
\* the ComplexType elements of the document, each with its type id
ComplexTypes ==
    Flatten([i \in 1..Len(doc.schemas) |->
        [j \in 1..Len(doc.schemas[i].ComplexTypes) |->
            [id |-> doc.schemas[i].Namespace \o "."
                        \o doc.schemas[i].ComplexTypes[j].Name,
             element |-> doc.schemas[i].ComplexTypes[j]]]])

ComplexIds == {ComplexTypes[i].id : i \in 1..Len(ComplexTypes)}

ComplexElement(id) ==
    ComplexTypes[CHOOSE i \in 1..Len(ComplexTypes) : ComplexTypes[i].id = id].element

\* the schema of a property follows its type: an array per Collection(...)
\* layer, and for a ComplexType an object that permits undeclared properties
\* exactly when the element's OpenType attribute is "true"
RECURSIVE OpenAsDeclared(_, _)
OpenAsDeclared(type, schema) ==
    IF type.coll > 0
    THEN /\ schema.kind = "ArrayType"
         /\ OpenAsDeclared([type EXCEPT !.coll = @ - 1], schema.items)
    ELSE IF type.base \in ComplexIds
    THEN LET element == ComplexElement(type.base)
         IN  /\ schema.kind = "ObjectType"
             /\ schema.additional_properties = TRUE
                    <=> element.OpenType = <<"true">>
             /\ Len(schema.properties) = Len(element.Properties)
             /\ \A i \in 1..Len(element.Properties) :
                    OpenAsDeclared(element.Properties[i].Type,
                                   schema.properties[i].type)
    ELSE schema.kind \notin {"ArrayType", "ObjectType"}

\* the EntityType element an emitted entity was made from
EntityElement(k) ==
    EntityTypes[CHOOSE t \in 1..Len(EntityTypes) :
        EntityTypes[t].id = EntitySets[FirstReferences[k]].EntityType].element

\* C12: for a property whose type resolves to a known ComplexType, directly
\* or inside Collection(...), the nested object schema permits additional
\* undeclared properties if and only if that ComplexType has OpenType="true";
\* with OpenType absent or of any other value it does not.
C12_OpenTypePermitsAdditionalProperties ==
    \A k \in 1..Len(discovered) :
        \A i \in 1..Len(EntityElement(k).Properties) :
            OpenAsDeclared(EntityElement(k).Properties[i].Type,
                           discovered[k].jsonschema[i].type)

C12_Witness ==
    /\ dpc = "done"
    /\ Len(discovered) = 2
    /\ discovered[2].name = "Learners"
    /\ ComplexElement("NS.A").OpenType = <<"false">>
    /\ ComplexElement("NS.B").OpenType = <<"true">>
    /\ discovered[2].jsonschema[2].type.kind = "ArrayType"
    /\ discovered[2].jsonschema[2].type.items.additional_properties = FALSE
    /\ Len(discovered[2].jsonschema[2].type.items.properties) = 2
    /\ discovered[2].jsonschema[2].type.items.properties[2].type.kind = "ObjectType"
    /\ discovered[2].jsonschema[2].type.items.properties[2].type.additional_properties = TRUE

\* ComplexTypes the properties refer to, directly or inside Collection(...)
RefsOf(properties) ==
    {properties[i].Type.base : i \in 1..Len(properties)} \cap ComplexIds

RECURSIVE ReachIn(_, _)
ReachIn(ids, n) ==
    IF n = 0 THEN ids
    ELSE ReachIn(ids \cup UNION {RefsOf(ComplexElement(id).Properties) : id \in ids},
                 n - 1)

\* ComplexTypes reached from the properties through any number of references
Reaches(properties) == ReachIn(RefsOf(properties), Cardinality(ComplexIds))

SelfReferential(id) == id \in Reaches(ComplexElement(id).Properties)

\* positions of the EntitySets whose EntityType reaches a ComplexType that
\* refers to itself
CyclicEntitySets ==
    {i \in 1..Len(EntitySets) :
        \E t \in 1..Len(EntityTypes) :
            /\ EntityTypes[t].id = EntitySets[i].EntityType
            /\ \E id \in Reaches(EntityTypes[t].element.Properties) :
                    SelfReferential(id)}

FirstCyclicEntitySet ==
    CHOOSE i \in CyclicEntitySets : \A j \in CyclicEntitySets : i <= j

stream_of(entity, streams_by_entity_name) ==
    IF /\ entity.parent_entity_name /= None
       /\ DictHas(streams_by_entity_name, entity.parent_entity_name[1])
    THEN [cls |-> entity.collection_name \o "EmbeddedStream",
          kind |-> "EmbeddedCollectionStream",
          name |-> entity.collection_name,
          entity_name |-> None,
          path |-> None,
          parent_stream_type |->
              Some(DictGet(streams_by_entity_name,
                           entity.parent_entity_name[1]).cls),
          parent_entity_name |-> entity.parent_entity_name,
          collection_name |-> Some(entity.collection_name),
          primary_keys |-> entity.primary_keys,
          replication_key |-> entity.replication_key]
    ELSE [cls |-> entity.name \o "AptemODataStream",
          kind |-> "AptemODataStream",
          name |-> entity.collection_name,
          entity_name |-> Some(entity.name),
          path |-> Some("/" \o entity.collection_name),
          parent_stream_type |-> None,
          parent_entity_name |-> None,
          collection_name |-> None,
          primary_keys |-> entity.primary_keys,
          replication_key |-> entity.replication_key]

\* one turn of the loop over the discovered entities
BuildStream ==
    /\ bpc = "building"
    /\ IF bidx > Len(discovered)
       THEN /\ bpc' = "done"
            /\ UNCHANGED <<built, bidx, derror>>
       ELSE LET entity == discovered[bidx]
            IN  IF "parent_entity_name" \notin DOMAIN entity
                THEN /\ bpc' = "failed"
                     /\ derror' = "AttributeError"
                     /\ UNCHANGED <<built, bidx>>
                ELSE /\ built' = DictSet(built, entity.name,
                                         stream_of(entity, built))
                     /\ bidx' = bidx + 1
                     /\ UNCHANGED <<bpc, derror>>
    /\ UNCHANGED <<doc, dpc, idx, discovered, indexes, frames>>
    /\ UNCHANGED <<pvars, evars>>

NextStreams == BuildStream

\* entities carrying the relationship fields that discover_streams reads
RelatedEntity(name, collection_name, parent_entity_name) ==
    [name |-> name, collection_name |-> collection_name,
     parent_entity_name |-> parent_entity_name,
     jsonschema |-> <<[name |-> "Id", type |-> [kind |-> "IntegerType"]]>>,
     primary_keys |-> <<"Id">>, replication_key |-> None]

RelatedEntities ==
    { RelatedEntity("Learner", "Learners", None),
      RelatedEntity("Review", "Reviews", Some("Learner")),
      RelatedEntity("Note", "Notes", Some("Learner")),
      RelatedEntity("Answer", "Answers", Some("Review")),
      RelatedEntity("Orphan", "Orphans", Some("Missing")) }

\* entities as the DiscoveredEntity of metadata.py declares them
PlainEntities ==
    { [name |-> n, jsonschema |-> <<[name |-> "Id", type |-> [kind |-> "IntegerType"]]>>,
       primary_keys |-> <<"Id">>, replication_key |-> None] :
        n \in {"Learners", "Reviews"} }

\* what discovery yields: up to MaxEntities entities of distinct names
Yields(entities) ==
    {es \in UNION {[1..n -> entities] : n \in 0..MaxEntities} :
        \A i, j \in 1..Len(es) : es[i].name = es[j].name => i = j}

InitStreams ==
    /\ \/ discovered \in Yields(RelatedEntities)
       \/ discovered \in Yields(PlainEntities)
    /\ doc = NoDocument
    /\ indexes = NoIndexes
    /\ dpc = "done"
    /\ idx = 0
    /\ derror = ""
    /\ frames = <<>>
    /\ built = <<>>
    /\ bidx = 1
    /\ bpc = "building"
    /\ PaginationIdle
    /\ EmbeddedIdle

SpecStreams == InitStreams /\ [][NextStreams]_vars

\* the discovered entity of position i names a parent that is discovered
NamesDiscoveredParent(i) ==
    /\ "parent_entity_name" \in DOMAIN discovered[i]
    /\ discovered[i].parent_entity_name /= None
    /\ \E j \in 1..Len(discovered) :
            discovered[j].name = discovered[i].parent_entity_name[1]

Scalar(k, v) == [k |-> k, t |-> "scalar", v |-> v, nested |-> <<>>]

List(k, elements) == [k |-> k, t |-> "list", v |-> 0, nested |-> elements]

\* hiddendict(record) under the key k
Hidden(k, record) == [k |-> k, t |-> "dict", v |-> 0, nested |-> <<record>>]

\* d[k]
Item(d, k) == d[CHOOSE i \in 1..Len(d) : d[i].k = k]

\* d[item.k] = item: an existing key keeps its place and takes the value
Put(d, item) ==
    IF \E i \in 1..Len(d) : d[i].k = item.k
    THEN [i \in 1..Len(d) |-> IF d[i].k = item.k THEN item ELSE d[i]]
    ELSE Append(d, item)

\* faulty variant: on a shared key the left operand's item is kept
RECURSIVE Union_left_wins(_, _)
Union_left_wins(a, b) ==
    IF Len(b) = 0 THEN a
    ELSE LET rest == Union_left_wins(a, SubSeq(b, 1, Len(b) - 1))
             last == b[Len(b)]
         IN  IF \E i \in 1..Len(rest) : rest[i].k = last.k
             THEN rest ELSE Append(rest, last)

\* a | b
RECURSIVE Union(_, _)
Union(a, b) ==
    IF Len(b) = 0 THEN a
    ELSE Put(Union(a, SubSeq(b, 1, Len(b) - 1)), b[Len(b)])

\* d.pop(k): the dict without the key
Pop(d, k) == SelectSeq(d, LAMBDA item : item.k /= k)

\* get_child_context of a parent stream that has child streams
get_child_context(entity_name, primary_keys, record) ==
    Put(Union(<<>>, [i \in 1..Len(primary_keys) |->
                [Item(record, primary_keys[i])
                    EXCEPT !.k = entity_name \o primary_keys[i]]]),
        Hidden(entity_name, record))

\* the collection the embedded stream iterates over
collection(ctx, parent_entity_name, collection_name) ==
    Item(Item(ctx, parent_entity_name).nested[1], collection_name).nested

\* the parent stream yields its next record and syncs its child stream with
\* the record's child context; get_records of the child copies the context
\* and pops the parent record out of the copy
SyncChild ==
    /\ epc = "parent"
    /\ IF eidx[1] > Len(embedded.records)
       THEN /\ epc' = "done"
            /\ UNCHANGED <<context, base_record, eidx>>
       ELSE LET ctx == get_child_context(embedded.entity_name,
                                         embedded.primary_keys,
                                         embedded.records[eidx[1]])
            IN  /\ context' = ctx
                /\ base_record' = Pop(ctx, embedded.parent_entity_name)
                /\ eidx' = <<eidx[1], 1>>
                /\ epc' = "child"
    /\ UNCHANGED <<embedded, child_records>>
    /\ UNCHANGED <<pvars, dvars, xvars>>

\* EmbeddedCollectionStream.get_records: one turn of its loop
YieldChild ==
    /\ epc = "child"
    /\ LET elements == collection(context, embedded.parent_entity_name,
                                  embedded.collection_name)
       IN  IF eidx[2] > Len(elements)
           THEN /\ epc' = "parent"
                /\ eidx' = <<eidx[1] + 1, 0>>
                /\ UNCHANGED child_records
           ELSE /\ child_records' = Append(child_records,
                        [parent |-> eidx[1], element |-> eidx[2],
                         record |-> Union(base_record, elements[eidx[2]])])
                /\ eidx' = <<eidx[1], eidx[2] + 1>>
                /\ UNCHANGED epc
    /\ UNCHANGED <<embedded, context, base_record>>
    /\ UNCHANGED <<pvars, dvars, xvars>>

NextEmbedded == SyncChild \/ YieldChild

\* elements of the nested collection: one with fields of its own only, one
\* whose fields share the names of the inherited keys and of the parent
ElementChoices ==
    { << Scalar("Id", 7), Scalar("Text", 1) >>,
      << Scalar("LearnerId", 99), Scalar("Learner", 5), Scalar("Id", 8),
         Scalar("LearnerCode", 98) >> }

ElementLists == UNION {[1..n -> ElementChoices] : n \in 0..MaxElements}

\* the p-th record of the parent stream
ParentRecord(p, elements) ==
    << Scalar("Id", p), Scalar("Code", 10 + p), Scalar("Name", 20),
       List("Reviews", elements) >>

ParentRecords ==
    UNION {{[p \in 1..n |-> ParentRecord(p, els[p])] : els \in [1..n -> ElementLists]} :
            n \in 0..MaxParents}

InitEmbedded ==
    /\ \E pks \in {<<"Id">>, <<"Code", "Id">>} : \E rs \in ParentRecords :
            embedded = [entity_name |-> "Learner", primary_keys |-> pks,
                        records |-> rs, parent_entity_name |-> "Learner",
                        collection_name |-> "Reviews"]
    /\ context = <<>>
    /\ base_record = <<>>
    /\ eidx = <<1, 0>>
    /\ child_records = <<>>
    /\ epc = "parent"
    /\ PaginationIdle
    /\ DiscoveryIdle
    /\ BuildIdle

SpecEmbedded == InitEmbedded /\ [][NextEmbedded]_vars

\* the elements of the nested collection of the p-th parent record
Elements(p) == Item(embedded.records[p], embedded.collection_name).nested

RECURSIVE ElementsBefore(_)
ElementsBefore(p) ==
    IF p <= 1 THEN 0 ELSE ElementsBefore(p - 1) + Len(Elements(p - 1))

Keys(d) == {d[i].k : i \in 1..Len(d)}

InheritedKeys == {"Learner" \o embedded.primary_keys[i] :
                    i \in 1..Len(embedded.primary_keys)}

\* C15: for every parent record and every element of its nested collection
\* exactly one child record is emitted, in collection order; it holds every
\* field of the element with the element's own value and each parent primary
\* key pk under parentEntityName+pk; on a shared name the element's field
\* wins, and the parent record carried in the context is not part of it.
C15_EmbeddedUnpacking ==
    /\ epc = "done" =>
            Len(child_records) = ElementsBefore(Len(embedded.records) + 1)
    /\ \A n \in 1..Len(child_records) :
        LET c == child_records[n]
            parent == embedded.records[c.parent]
        IN  /\ c.element \in 1..Len(Elements(c.parent))
            /\ n = ElementsBefore(c.parent) + c.element
            /\ LET element == Elements(c.parent)[c.element]
               IN  /\ \A i \in 1..Len(element) :
                        Item(c.record, element[i].k) = element[i]
                   /\ \A i \in 1..Len(embedded.primary_keys) :
                        LET pk == embedded.primary_keys[i]
                        IN  "Learner" \o pk \notin Keys(element) =>
                                Item(c.record, "Learner" \o pk)
                                    = Scalar("Learner" \o pk, Item(parent, pk).v)
                   /\ Keys(c.record) = Keys(element) \cup InheritedKeys
                   /\ Len(c.record) = Cardinality(Keys(c.record))
                   /\ \A i \in 1..Len(c.record) : c.record[i].t = "scalar"

C15_Witness ==
    /\ epc = "done"
    /\ Len(embedded.records) = 2
    /\ embedded.primary_keys = <<"Code", "Id">>
    /\ Len(child_records) = 3
    /\ child_records[1].parent = 1
    /\ child_records[1].record =
            << Scalar("LearnerCode", 11), Scalar("LearnerId", 1),
               Scalar("Id", 7), Scalar("Text", 1) >>
    /\ child_records[3].parent = 2 /\ child_records[3].element = 2
    /\ child_records[3].record =
            << Scalar("LearnerCode", 98), Scalar("LearnerId", 99),
               Scalar("Learner", 5), Scalar("Id", 8) >>

====
